---- MODULE Spec2Model ----
(***************************************************************************)
(* Monte Carlo load simulator (Load_Simulator.py).                         *)
(*                                                                         *)
(* Numbers.  Every load is held as an integer number of thousandths        *)
(* (0.001 kW): devices_on * power * 0.001 is the integer devices_on*power, *)
(* devices_on * power * 0.01 is the integer devices_on*power*10.           *)
(* A utilisation probability is held in hundredths (0.5 is 50).            *)
(* A mean or percentile is an exact fraction [num, den] of thousandths; a  *)
(* standard deviation and the variability are held by their SQUARES, as    *)
(* fractions [sq_num, sq_den]; the floating point values NaN and inf are   *)
(* the fractions 0/0 and 1/0.                                              *)
(***************************************************************************)
EXTENDS Integers, Sequences, FiniteSets

VARIABLES
    load_inputs,            \* rows of "Device list.csv", in index order
    trials,                 \* self.trials
    percentile,             \* self.percentile
    entry,                  \* the entry point called, "" before the call
    pc,                     \* position of the running entry point
    error,                  \* the exception that ended the run, "" if none
    month,                  \* make_results: loop variable
    output,                 \* system_load_month_monte_carlo: ensemble so far
    means,                  \* make_results: table of monthly mean columns
    std_devs,               \* make_results: table of monthly std columns
    percentage_variability, \* make_results: table of monthly std/mean columns
    percentiles,            \* make_results: table of monthly percentile columns
    result,                 \* what the entry point returned, <<>> if nothing
    files,                  \* names of the files written under Outputs/
    trial,                  \* detailed_output: loop variable
    records,                \* detailed_output: the six output_* lists, zipped
    samples,                \* history: np.random.binomial calls completed
    devices_on,             \* history: counts drawn by the last aggregator call
    calls,                  \* history: month of every aggregator call, in order
    monthly_output,         \* quickplot: frame returned for the last month
    plot_output             \* quickplot: the monthly frames, concatenated

vars == <<load_inputs, trials, percentile, entry, pc, error, month, output, means,
          std_devs, percentage_variability, percentiles, result, files,
          trial, records, samples, devices_on, calls, monthly_output,
          plot_output>>

(***************************************************************************)
(* Bounds of the model and constants of the program.                       *)
(***************************************************************************)
MaxDevices == 2
MaxNumber == 2
MaxTrials == 2
NumHours == 24
NumMonths == 12

Hours == 0 .. (NumHours - 1)
Months == 0 .. (NumMonths - 1)

months == <<"Jan", "Feb", "Mar", "Apr", "May", "Jun",
            "Jul", "Aug", "Sep", "Oct", "Nov", "Dec">>

TrialValues == (-1) .. MaxTrials
PercentileValues == {-10, 0, 50, 100, 150}

(***************************************************************************)
(* Input data: rows of the device list and the utilisation files.          *)
(***************************************************************************)
\* The content of "[device]_times.csv": probability (hundredths) of use at
\* hour h (row) of month m (column).
UtilisationTimes(times, h, m) ==
    CASE times = "half" -> IF h = 0 /\ m = 0 THEN 50
                           ELSE IF h = 1 THEN 100 ELSE 0
      [] times = "one"  -> 100
      [] times = "zero" -> 0
      [] times = "over" -> IF h = 5 /\ m = 1 THEN 150 ELSE 0

\* The rows a device list is drawn from, in the order of the file.
DeviceRows ==
    << [name |-> "lamp", Available |-> "Y", Number |-> MaxNumber, Power |-> 100,
        Type |-> "lighting", times |-> "half"],
       [name |-> "tv", Available |-> "N", Number |-> MaxNumber, Power |-> 60,
        Type |-> "media", times |-> "one"],
       [name |-> "fan", Available |-> "Y", Number |-> 0, Power |-> 40,
        Type |-> "cooling", times |-> "half"],
       [name |-> "charger", Available |-> "Y", Number |-> MaxNumber, Power |-> 5,
        Type |-> "media", times |-> "one"],
       [name |-> "pump", Available |-> "Y", Number |-> -1, Power |-> 500,
        Type |-> "water", times |-> "one"],
       [name |-> "kettle", Available |-> "y", Number |-> 1, Power |-> 2000,
        Type |-> "heat", times |-> "one"],
       [name |-> "heater", Available |-> "Y", Number |-> 1, Power |-> 1000,
        Type |-> "heat", times |-> "over"],
       [name |-> "radio", Available |-> "Y", Number |-> 1, Power |-> 10,
        Type |-> "media", times |-> "missing"] >>

\* The rows of DeviceRows at the indices `s`, in the order of the file.
RECURSIVE Pick(_, _)
Pick(s, i) ==
    IF i > Len(DeviceRows) THEN <<>>
    ELSE (IF i \in s THEN <<DeviceRows[i]>> ELSE <<>>) \o Pick(s, i + 1)

\* A device list: at most MaxDevices rows, the index (name) unique.
Catalogs ==
    { Pick(s, 1) : s \in { t \in SUBSET (1 .. Len(DeviceRows)) :
                             Cardinality(t) <= MaxDevices } }

(***************************************************************************)
(* Helpers on sequences and exact fractions.                               *)
(***************************************************************************)
RECURSIVE SumSeq(_)
SumSeq(s) == IF s = <<>> THEN 0 ELSE s[1] + SumSeq(Tail(s))

RECURSIVE Insert(_, _)
Insert(x, s) ==
    IF s = <<>> THEN <<x>>
    ELSE IF x <= s[1] THEN <<x>> \o s ELSE <<s[1]>> \o Insert(x, Tail(s))

RECURSIVE Sorted(_)
Sorted(s) == IF s = <<>> THEN <<>> ELSE Insert(s[1], Sorted(Tail(s)))

\* Row h of an ensemble held as a sequence of columns (DataFrame.iloc[h]).
Row(ensemble, h) == [t \in 1 .. Len(ensemble) |-> ensemble[t][h + 1]]

(***************************************************************************)
(* get_number_of_devices: the number of a device owned by the community.   *)
(* With Available neither 'Y' nor 'N' no branch binds `ownership` and the  *)
(* return raises UnboundLocalError.                                        *)
(***************************************************************************)
OwnershipBound(row) == row.Available \in {"Y", "N"}

GetNumberOfDevicesIgnoringAvailable(row) == row.Number

GetNumberOfDevices(row) ==
    CASE row.Available = "Y" -> row.Number
      [] row.Available = "N" -> 0

(***************************************************************************)
(* get_utilisation_times_month: column `m` of the device's file.           *)
(***************************************************************************)
GetUtilisationTimesMonth(row, m) ==
    [i \in 1 .. NumHours |-> UtilisationTimes(row.times, i - 1, m)]

(***************************************************************************)
(* np.random.binomial(n, p).  It raises ValueError for n < 0 or p outside  *)
(* [0, 1]; otherwise the draw is any count the distribution gives positive *)
(* probability: 0 for p = 0, n for p = 1, anything in 0..n in between.     *)
(***************************************************************************)
BinomialValid(n, p) == n >= 0 /\ p >= 0 /\ p <= 100

BinomialSupportOverdraw(n, p) ==
    IF p = 0 THEN {0} ELSE IF p = 100 THEN {n} ELSE 0 .. (n + 1)

BinomialSupportNoCertain(n, p) ==
    IF p = 0 THEN {0} ELSE 0 .. n

BinomialSupport(n, p) ==
    IF p = 0 THEN {0} ELSE IF p = 100 THEN {n} ELSE 0 .. n

\* The vectors one array call can return for the first k hours of a column.
RECURSIVE DrawVectors(_, _, _)
DrawVectors(n, col, k) ==
    IF k = 0 THEN { <<>> }
    ELSE { Append(v, d) : v \in DrawVectors(n, col, k - 1),
                          d \in BinomialSupport(n, col[k]) }

(***************************************************************************)
(* device_load_profile_month_random(device, month).                        *)
(***************************************************************************)
\* The exception the call raises, "" if none: the number is found first,
\* the file is read before the draw, and the array draw checks the whole
\* column first.
DeviceCallError(row, m) ==
    IF ~OwnershipBound(row) THEN "UnboundLocalError"
    ELSE IF row.times = "missing" THEN "FileNotFoundError"
    ELSE IF \E i \in 1 .. NumHours :
              ~BinomialValid(GetNumberOfDevices(row),
                             GetUtilisationTimesMonth(row, m)[i])
         THEN "ValueError"
         ELSE ""

\* devices_on * device_load * 0.001, in thousandths.
DeviceLoad(row, on) == [i \in 1 .. Len(on) |-> on[i] * row.Power]

(***************************************************************************)
(* system_load_month_random(month): one aggregator call.                   *)
(***************************************************************************)
\* The index of the first device whose call raises, 0 if none does.
FirstFailure(m) ==
    LET bad == { i \in DOMAIN load_inputs : DeviceCallError(load_inputs[i], m) # "" }
    IN  IF bad = {} THEN 0 ELSE CHOOSE i \in bad : \A j \in bad : i <= j

\* The draws of one call: one count vector per device, for the first k devices.
RECURSIVE TrialDraws(_, _)
TrialDraws(m, k) ==
    IF k = 0 THEN { <<>> }
    ELSE { Append(ds, v) :
             ds \in TrialDraws(m, k - 1),
             v \in DrawVectors(GetNumberOfDevices(load_inputs[k]),
                               GetUtilisationTimesMonth(load_inputs[k], m),
                               NumHours) }

\* system_load.values + device load: numpy broadcasts the 1 x 1 start value.
BroadcastAdd(a, b) ==
    IF Len(a) = 1 THEN [i \in 1 .. Len(b) |-> a[1] + b[i]]
    ELSE [i \in 1 .. Len(b) |-> a[i] + b[i]]

RECURSIVE SystemLoadFrom(_, _, _)
SystemLoadFrom(system_load, on, k) ==
    IF k > Len(on) THEN system_load
    ELSE SystemLoadFrom(BroadcastAdd(system_load, DeviceLoad(load_inputs[k], on[k])),
                        on, k + 1)

\* The load vector for the draws `on`, starting from pd.DataFrame([0.0]).
SystemLoad(on) == SystemLoadFrom(<<0>>, on, 1)

(***************************************************************************)
(* The statistics of make_results, on one row (hour) of the ensemble.      *)
(***************************************************************************)
\* The floating point values 0.0/0.0 and x/0.0 (x > 0).
NaN == [sq_num |-> 0, sq_den |-> 0]
Inf == [sq_num |-> 1, sq_den |-> 0]

\* DataFrame.mean(axis=1): the sum over the number of values.
Mean(row) == [num |-> SumSeq(row), den |-> Len(row)]

\* The sum of the squared deviations from the mean, times Len(row)^2.
SumSqDev(row) ==
    LET n == Len(row)
        s == SumSeq(row)
    IN  SumSeq([t \in 1 .. n |-> (n * row[t] - s) * (n * row[t] - s)])

\* The standard deviation with `ddof` delta degrees of freedom:
\* sqrt(sum of squared deviations / (n - ddof)), NaN when n - ddof <= 0.
StdWith(row, ddof) ==
    LET n == Len(row)
    IN  IF n - ddof <= 0 THEN NaN
        ELSE [sq_num |-> SumSqDev(row), sq_den |-> n * n * (n - ddof)]

StdPopulation(row) == StdWith(row, 0)

\* DataFrame.std(axis=1): pandas' default is ddof = 1.
Std(row) == StdWith(row, 1)

\* monthly_std_devs.values / monthly_means.values: numpy's true division,
\* 0/0 = NaN and x/0 = inf (a warning, no exception).
Divide(std, mean) ==
    IF std = NaN THEN NaN
    ELSE IF mean.num = 0 THEN (IF std.sq_num = 0 THEN NaN ELSE Inf)
    ELSE [sq_num |-> std.sq_num * mean.den * mean.den,
          sq_den |-> std.sq_den * mean.num * mean.num]

\* np.percentile(row, q), q in [0, 100]: linear interpolation between the
\* order statistics around the position q/100 * (n - 1).
Percentile(row, q) ==
    LET s == Sorted(row)
        pos == q * (Len(row) - 1)
        lo == pos \div 100
        fr == pos % 100
        hi == IF lo + 1 < Len(row) THEN lo + 1 ELSE lo
    IN  [num |-> 100 * s[lo + 1] + fr * (s[hi + 1] - s[lo + 1]), den |-> 100]

\* The exception get_hourly_percentile_value raises on an ensemble, "" if
\* none: iloc[hour] needs the row, np.percentile needs q in [0, 100].
PercentileError(ensemble) ==
    IF ensemble = <<>> THEN "IndexError"
    ELSE IF percentile < 0 \/ percentile > 100 THEN "ValueError"
    ELSE IF Len(ensemble[1]) < NumHours THEN "IndexError"
    ELSE ""

\* One monthly column of a result table, titled with the month.
Column(m, f) == [name |-> months[m + 1], values |-> [i \in 1 .. NumHours |-> f[i - 1]]]

(***************************************************************************)
(* detailed_output: the draws and records of one trial.                    *)
(***************************************************************************)
\* The scalar draws of one device before its first failing one, and the
\* exception: the number is found first, the file is read at the start of
\* each month, then one scalar draw per hour.
DetailFailure(row) ==
    LET bad == { c \in 0 .. (NumMonths * NumHours - 1) :
                   ~BinomialValid(GetNumberOfDevices(row),
                                  UtilisationTimes(row.times, c % NumHours,
                                                   c \div NumHours)) }
    IN  IF ~OwnershipBound(row) THEN [kind |-> "UnboundLocalError", before |-> 0]
        ELSE IF row.times = "missing" THEN [kind |-> "FileNotFoundError", before |-> 0]
        ELSE IF bad = {} THEN [kind |-> "", before |-> NumMonths * NumHours]
        ELSE [kind |-> "ValueError",
              before |-> CHOOSE c \in bad : \A d \in bad : c <= d]

\* The index of the first device whose draws raise, 0 if none does.
FirstDetailFailure ==
    LET bad == { i \in DOMAIN load_inputs : DetailFailure(load_inputs[i]).kind # "" }
    IN  IF bad = {} THEN 0 ELSE CHOOSE i \in bad : \A j \in bad : i <= j

\* The draws of one device for the first k months: one count vector a month.
RECURSIVE YearDraws(_, _)
YearDraws(row, k) ==
    IF k = 0 THEN { <<>> }
    ELSE { Append(ys, v) :
             ys \in YearDraws(row, k - 1),
             v \in DrawVectors(GetNumberOfDevices(row),
                               GetUtilisationTimesMonth(row, k - 1), NumHours) }

\* The draws of one trial: one year of draws per device, first k devices.
RECURSIVE DetailDraws(_)
DetailDraws(k) ==
    IF k = 0 THEN { <<>> }
    ELSE { Append(ds, y) : ds \in DetailDraws(k - 1),
                           y \in YearDraws(load_inputs[k], NumMonths) }

RecordWithFirstType(t, d, m, h, on) ==
    [Trial |-> t, Device |-> load_inputs[d].name, Month |-> months[m + 1],
     Hour |-> h, Load |-> on * load_inputs[d].Power * 10,
     Type |-> load_inputs[1].Type]

\* One appended record; the load is devices_on * device_power * 0.01.
Record(t, d, m, h, on) ==
    [Trial |-> t, Device |-> load_inputs[d].name, Month |-> months[m + 1],
     Hour |-> h, Load |-> on * load_inputs[d].Power * 10,
     Type |-> load_inputs[d].Type]

\* The records of trial t, in the order of the loops: device, month, hour.
TrialRecords(t, draws) ==
    LET per == NumMonths * NumHours
    IN  [i \in 1 .. (Len(load_inputs) * per) |->
           LET d == ((i - 1) \div per) + 1
               m == ((i - 1) % per) \div NumHours
               h == (i - 1) % NumHours
           IN  Record(t, d, m, h, draws[d][m + 1][h + 1])]

(***************************************************************************)
(* The state after construction, and the steps of the entry points.        *)
(***************************************************************************)
Init ==
    /\ load_inputs \in Catalogs
    /\ trials \in TrialValues
    /\ percentile \in PercentileValues
    /\ entry = ""
    /\ pc = "idle"
    /\ error = ""
    /\ month = 0
    /\ output = <<>>
    /\ means = <<>>
    /\ std_devs = <<>>
    /\ percentage_variability = <<>>
    /\ percentiles = <<>>
    /\ result = <<>>
    /\ files = {}
    /\ trial = 0
    /\ records = <<>>
    /\ samples = 0
    /\ devices_on = <<>>
    /\ calls = <<>>
    /\ monthly_output = <<>>
    /\ plot_output = <<>>

\* quickstart() calls make_results(), which starts its loop over the months.
Quickstart ==
    /\ UNCHANGED <<monthly_output, plot_output>>
    /\ pc = "idle"
    /\ entry' = "quickstart"
    /\ pc' = "make_results"
    /\ UNCHANGED <<load_inputs, trials, percentile, error, month, output, means,
                   std_devs, percentage_variability, percentiles, result, files,
                   trial, records, samples, devices_on, calls>>

\* One iteration of the loop of system_load_month_monte_carlo: one call of
\* system_load_month_random, its result concatenated to the ensemble.
MonteCarloTrial ==
    /\ UNCHANGED <<monthly_output, plot_output>>
    /\ pc = "make_results"
    /\ month < NumMonths
    /\ Len(output) < trials
    /\ calls' = Append(calls, month)
    /\ LET k == FirstFailure(month)
       IN  IF k > 0
           THEN /\ pc' = "error"
                /\ error' = DeviceCallError(load_inputs[k], month)
                /\ samples' = samples + (k - 1)
                /\ UNCHANGED <<output, devices_on>>
           ELSE /\ \E on \in TrialDraws(month, Len(load_inputs)) :
                     /\ devices_on' = on
                     /\ output' = Append(output, SystemLoad(on))
                /\ samples' = samples + Len(load_inputs)
                /\ UNCHANGED <<pc, error>>
    /\ UNCHANGED <<load_inputs, trials, percentile, entry, month, means, std_devs,
                   percentage_variability, percentiles, result, files, trial,
                   records>>

\* The rest of the body of the loop of make_results, once the ensemble of the
\* month is complete: the four statistics, titled and concatenated.
Summarise ==
    /\ UNCHANGED <<monthly_output, plot_output>>
    /\ pc = "make_results"
    /\ month < NumMonths
    /\ Len(output) >= trials
    /\ IF PercentileError(output) # ""
       THEN /\ pc' = "error"
            /\ error' = PercentileError(output)
            /\ UNCHANGED <<month, output, means, std_devs,
                           percentage_variability, percentiles>>
       ELSE /\ means' = Append(means,
                   Column(month, [h \in Hours |-> Mean(Row(output, h))]))
            /\ std_devs' = Append(std_devs,
                   Column(month, [h \in Hours |-> Std(Row(output, h))]))
            /\ percentage_variability' = Append(percentage_variability,
                   Column(month, [h \in Hours |-> Divide(Std(Row(output, h)),
                                                        Mean(Row(output, h)))]))
            /\ percentiles' = Append(percentiles,
                   Column(month, [h \in Hours |-> Percentile(Row(output, h), percentile)]))
            /\ month' = month + 1
            /\ output' = <<>>
            /\ UNCHANGED <<pc, error>>
    /\ UNCHANGED <<load_inputs, trials, percentile, entry, result, files, trial,
                   records, samples, devices_on, calls>>

\* make_results returns the four tables to quickstart.
ReturnResults ==
    /\ UNCHANGED <<monthly_output, plot_output>>
    /\ pc = "make_results"
    /\ month = NumMonths
    /\ result' = <<means, std_devs, percentage_variability, percentiles>>
    /\ pc' = "save_results"
    /\ UNCHANGED <<load_inputs, trials, percentile, entry, error, month, output, means,
                   std_devs, percentage_variability, percentiles, files, trial,
                   records, samples, devices_on, calls>>

\* save_results writes one file per table.
SaveResults ==
    /\ UNCHANGED <<monthly_output, plot_output>>
    /\ pc = "save_results"
    /\ files' = {"mean", "standard_deviation", "percentage_variability",
                 "percentile"}
    /\ pc' = "done"
    /\ UNCHANGED <<load_inputs, trials, percentile, entry, error, month, output, means,
                   std_devs, percentage_variability, percentiles, result, trial,
                   records, samples, devices_on, calls>>

\* detailed_output() starts its loop over the trials.
DetailedOutput ==
    /\ UNCHANGED <<monthly_output, plot_output>>
    /\ pc = "idle"
    /\ entry' = "detailed_output"
    /\ pc' = "detailed_output"
    /\ UNCHANGED <<load_inputs, trials, percentile, error, month, output, means,
                   std_devs, percentage_variability, percentiles, result, files,
                   trial, records, samples, devices_on, calls>>

\* One iteration of the outer loop of detailed_output: every device, month
\* and hour of one trial.
DetailedTrial ==
    /\ UNCHANGED <<monthly_output, plot_output>>
    /\ pc = "detailed_output"
    /\ trial < trials
    /\ LET k == FirstDetailFailure
           per == NumMonths * NumHours
       IN  IF k > 0
           THEN /\ pc' = "error"
                /\ error' = DetailFailure(load_inputs[k]).kind
                /\ samples' = samples + (k - 1) * per
                                + DetailFailure(load_inputs[k]).before
                /\ UNCHANGED <<trial, records>>
           ELSE /\ \E draws \in DetailDraws(Len(load_inputs)) :
                     records' = records \o TrialRecords(trial, draws)
                /\ trial' = trial + 1
                /\ samples' = samples + Len(load_inputs) * per
                /\ UNCHANGED <<pc, error>>
    /\ UNCHANGED <<load_inputs, trials, percentile, entry, month, output, means,
                   std_devs, percentage_variability, percentiles, result, files,
                   devices_on, calls>>

\* The lists are made into titled one-column frames and concatenated; a
\* frame made from an empty list has no column to title (ValueError).
DetailedReturn ==
    /\ UNCHANGED <<monthly_output, plot_output>>
    /\ pc = "detailed_output"
    /\ trial >= trials
    /\ IF records = <<>>
       THEN /\ pc' = "error"
            /\ error' = "ValueError"
            /\ UNCHANGED result
       ELSE /\ pc' = "done"
            /\ result' = records
            /\ UNCHANGED error
    /\ UNCHANGED <<load_inputs, trials, percentile, entry, month, output, means,
                   std_devs, percentage_variability, percentiles, files, trial,
                   records, samples, devices_on, calls>>

\* One row of the frame system_load_month_monte_carlo_transposed returns:
\* the transposed load vector of one trial, its sum over the columns and
\* the label of the month.
TransposedRow(load, m) ==
    [values |-> load, daily_sum |-> SumSeq(load), Month |-> months[m + 1]]

\* The frame system_load_month_monte_carlo_transposed returns: one row per
\* trial, re-indexed, with the columns 'Daily sum (kWh)' and 'Month' added.
TransposedFrame(ensemble, m) ==
    [t \in 1 .. Len(ensemble) |-> TransposedRow(ensemble[t], m)]

\* The number of columns of a transposed frame: the hour columns of its rows
\* and the two added ones (an empty frame has only the added ones).
FrameWidth(frame) ==
    IF frame = <<>> THEN 2 ELSE Len(frame[1].values) + 2

\* The outcomes of the box plot of the concatenated frame: it is drawn when
\* the frame has rows; of a frame without rows the plotting library either
\* draws empty axes or raises, depending on its version.
BoxplotOutcomes(frame) ==
    IF frame = <<>> THEN {"drawn", "ValueError"} ELSE {"drawn"}

\* The name of the figure quickplot saves in the outputs folder.
PlotFile == "Total system energy demand (kWh per day).png"

\* quickplot() starts its loop over the months with an empty frame.
Quickplot ==
    /\ pc = "idle"
    /\ entry' = "quickplot"
    /\ pc' = "quickplot"
    /\ month' = 0
    /\ plot_output' = <<>>
    /\ UNCHANGED <<load_inputs, trials, percentile, error, output, means,
                   std_devs, percentage_variability, percentiles, result, files,
                   trial, records, samples, devices_on, calls, monthly_output>>

\* system_load_month_monte_carlo_transposed(month), called on its own for
\* one of the twelve months, starts its loop over the trials.
SystemLoadMonthMonteCarloTransposed ==
    /\ pc = "idle"
    /\ entry' = "system_load_month_monte_carlo_transposed"
    /\ pc' = "transposed"
    /\ \E m \in Months : month' = m
    /\ UNCHANGED <<load_inputs, trials, percentile, error, output, means,
                   std_devs, percentage_variability, percentiles, result, files,
                   trial, records, samples, devices_on, calls, monthly_output,
                   plot_output>>

\* One iteration of the loop of system_load_month_monte_carlo_transposed: one
\* call of system_load_month_random, its result transposed and concatenated
\* to the frame as a row.
TransposedTrial ==
    /\ pc \in {"quickplot", "transposed"}
    /\ month < NumMonths
    /\ Len(output) < trials
    /\ calls' = Append(calls, month)
    /\ LET k == FirstFailure(month)
       IN  IF k > 0
           THEN /\ pc' = "error"
                /\ error' = DeviceCallError(load_inputs[k], month)
                /\ samples' = samples + (k - 1)
                /\ UNCHANGED <<output, devices_on>>
           ELSE /\ \E on \in TrialDraws(month, Len(load_inputs)) :
                     /\ devices_on' = on
                     /\ output' = Append(output, SystemLoad(on))
                /\ samples' = samples + Len(load_inputs)
                /\ UNCHANGED <<pc, error>>
    /\ UNCHANGED <<load_inputs, trials, percentile, entry, month, means, std_devs,
                   percentage_variability, percentiles, result, files, trial,
                   records, monthly_output, plot_output>>

\* The end of system_load_month_monte_carlo_transposed, once its loop over
\* the trials is over: the frame of the month is returned.  In quickplot the
\* rest of the body of its loop follows: the frame is concatenated.
TransposedReturn ==
    /\ pc \in {"quickplot", "transposed"}
    /\ month < NumMonths
    /\ Len(output) >= trials
    /\ output' = <<>>
    /\ IF pc = "quickplot"
       THEN /\ monthly_output' = TransposedFrame(output, month)
            /\ plot_output' = plot_output \o TransposedFrame(output, month)
            /\ month' = month + 1
            /\ UNCHANGED <<pc, result>>
       ELSE /\ result' = TransposedFrame(output, month)
            /\ pc' = "done"
            /\ UNCHANGED <<month, monthly_output, plot_output>>
    /\ UNCHANGED <<load_inputs, trials, percentile, entry, error, means,
                   std_devs, percentage_variability, percentiles, files,
                   trial, records, samples, devices_on, calls>>

\* After the loop of quickplot: the box plot of the daily sums by month is
\* drawn and saved as a figure in the outputs folder; nothing is returned.
QuickplotSave ==
    /\ pc = "quickplot"
    /\ month = NumMonths
    /\ \E outcome \in BoxplotOutcomes(plot_output) :
           IF outcome = "drawn"
           THEN /\ files' = files \cup {PlotFile}
                /\ pc' = "done"
                /\ UNCHANGED error
           ELSE /\ pc' = "error"
                /\ error' = outcome
                /\ UNCHANGED files
    /\ UNCHANGED <<load_inputs, trials, percentile, entry, month, output, means,
                   std_devs, percentage_variability, percentiles, result, trial,
                   records, samples, devices_on, calls, monthly_output,
                   plot_output>>

Next ==
    \/ Quickstart
    \/ MonteCarloTrial
    \/ Summarise
    \/ ReturnResults
    \/ SaveResults
    \/ DetailedOutput
    \/ DetailedTrial
    \/ DetailedReturn
    \/ Quickplot
    \/ SystemLoadMonthMonteCarloTransposed
    \/ TransposedTrial
    \/ TransposedReturn
    \/ QuickplotSave

Spec == Init /\ [][Next]_vars

(***************************************************************************)
(* Vocabulary of the properties.                                           *)
(***************************************************************************)
Names == { load_inputs[i].name : i \in DOMAIN load_inputs }

RowOf(name) == load_inputs[CHOOSE i \in DOMAIN load_inputs : load_inputs[i].name = name]

\* Not available, or none owned.
Inactive(row) == row.Available = "N" \/ row.Number = 0

\* The owned count that counts: 0 for a device that is not available.
EffectiveCount(row) == IF row.Available = "N" THEN 0 ELSE row.Number

\* The sum of f[i] over the indices i in s.
RECURSIVE SumOver(_, _)
SumOver(s, f) ==
    IF s = {} THEN 0
    ELSE LET i == CHOOSE j \in s : TRUE IN f[i] + SumOver(s \ {i}, f)

\* The last column of the ensemble is the load of the last aggregator call.
LastLoad == output[Len(output)]

ConfigInvalid == trials <= 0 \/ percentile <= 0 \/ percentile >= 100

RowInvalid(row) ==
    \/ row.Available \notin {"Y", "N"}
    \/ row.Number < 0
    \/ row.times = "missing"
    \/ \E h \in Hours, m \in Months :
         UtilisationTimes(row.times, h, m) < 0 \/ UtilisationTimes(row.times, h, m) > 100

DataInvalid == \E i \in DOMAIN load_inputs : RowInvalid(load_inputs[i])

TableShapeOK(table) ==
    /\ Len(table) = NumMonths
    /\ \A c \in 1 .. NumMonths :
         table[c].name = months[c] /\ Len(table[c].values) = NumHours

\* A cell of the variability table that is neither a number nor NaN nor inf.
IsUndefinedSentinel(x) == x.sq_den = 0 /\ x # NaN /\ x # Inf

\* n * (sum of squares) - (sum)^2 : n^2 times the population variance.
ScaledVariance(row) ==
    Len(row) * SumSeq([t \in DOMAIN row |-> row[t] * row[t]]) - SumSeq(row) * SumSeq(row)

(***************************************************************************)
(* C1.  A device that is not available ('N') or of which none are owned    *)
(* (Number 0) has sampled load 0 at every hour of every aggregator call,   *)
(* every entry of the call's system load is the sum of the loads of the    *)
(* other devices alone, and every detailed record of such a device has     *)
(* load 0.                                                                 *)
(***************************************************************************)
C1_InactiveDevicesContributeNothing ==
    /\ \A i \in DOMAIN devices_on :
         Inactive(load_inputs[i]) =>
           \A h \in DOMAIN devices_on[i] :
             DeviceLoad(load_inputs[i], devices_on[i])[h] = 0
    /\ output # <<>> =>
         \A h \in DOMAIN LastLoad :
           LastLoad[h] =
             SumOver({ i \in DOMAIN load_inputs : ~Inactive(load_inputs[i]) },
                     [i \in DOMAIN load_inputs |->
                        devices_on[i][h] * load_inputs[i].Power])
    /\ \A r \in DOMAIN records :
         Inactive(RowOf(records[r].Device)) => records[r].Load = 0

\* An aggregator call over an unavailable device used with certainty and a
\* device that draws load.
C1_Witness ==
    /\ output # <<>>
    /\ \E i \in DOMAIN load_inputs :
         /\ load_inputs[i].Available = "N"
         /\ load_inputs[i].Number > 0
         /\ UtilisationTimes(load_inputs[i].times, 0, month) = 100
    /\ LastLoad[1] > 0

(***************************************************************************)
(* C2.  Every sampled count of active units lies between 0 and the         *)
(* device's effective owned count, and every entry of every trial's system *)
(* load vector is at least 0.                                              *)
(***************************************************************************)
C2_CountsAndLoadsInRange ==
    /\ \A i \in DOMAIN devices_on :
         \A h \in DOMAIN devices_on[i] :
           /\ devices_on[i][h] >= 0
           /\ devices_on[i][h] <= EffectiveCount(load_inputs[i])
    /\ \A t \in DOMAIN output :
         \A h \in DOMAIN output[t] : output[t][h] >= 0
    /\ \A r \in DOMAIN records :
         /\ records[r].Load >= 0
         /\ records[r].Load <= EffectiveCount(RowOf(records[r].Device))
                                 * RowOf(records[r].Device).Power * 10

\* A draw strictly between none and all of the owned units.
C2_Witness ==
    /\ output # <<>>
    /\ \E i \in DOMAIN devices_on :
         devices_on[i][1] > 0 /\ devices_on[i][1] < EffectiveCount(load_inputs[i])

(***************************************************************************)
(* C3.  Every column of the ensemble of system_load_month_monte_carlo has  *)
(* 24 rows, whatever the device list (the empty one included); the         *)
(* ensemble never has more than `trials` columns, one per iteration of the *)
(* trial loop.                                                             *)
(***************************************************************************)
C3_EnsembleShape ==
    /\ Len(output) <= (IF trials > 0 THEN trials ELSE 0)
    /\ \A t \in DOMAIN output : Len(output[t]) = NumHours
    /\ (pc = "make_results" /\ month < NumMonths /\ trials > 0 /\ FirstFailure(month) = 0)
         => Len(calls) = month * trials + Len(output)

(***************************************************************************)
(* C4.  detailed_output holds, after each trial, exactly one record for    *)
(* each (trial, device, month, hour) of the trials done, and returns       *)
(* trials * |devices| * 12 * 24 records; each record carries the Type of   *)
(* its own device.                                                         *)
(***************************************************************************)
C4_OneRecordPerQuadruple ==
    entry = "detailed_output" =>
      /\ Len(records) = trial * Len(load_inputs) * NumMonths * NumHours
      /\ Cardinality({ <<records[r].Trial, records[r].Device, records[r].Month,
                         records[r].Hour>> : r \in DOMAIN records }) = Len(records)
      /\ \A r \in DOMAIN records :
           /\ records[r].Trial \in 0 .. (trial - 1)
           /\ records[r].Device \in Names
           /\ records[r].Month \in { months[m + 1] : m \in Months }
           /\ records[r].Hour \in Hours
           /\ records[r].Type = RowOf(records[r].Device).Type
      /\ pc = "done" => trial = trials /\ result = records

\* A returned table of two trials over two devices of different types.
C4_Witness ==
    /\ entry = "detailed_output"
    /\ pc = "done"
    /\ trials = 2
    /\ Len(load_inputs) = 2
    /\ load_inputs[1].Type # load_inputs[2].Type
    /\ Len(result) = 2 * 2 * NumMonths * NumHours

(***************************************************************************)
(* C5.  With trials <= 0 or the percentile outside (0, 100) a quickstart   *)
(* run (on valid data) draws no binomial sample, returns no table and      *)
(* writes no file.                                                         *)
(***************************************************************************)
C5_ConfigRejectedBeforeSampling ==
    (entry = "quickstart" /\ ConfigInvalid /\ ~DataInvalid) =>
      samples = 0 /\ result = <<>> /\ files = {}

(***************************************************************************)
(* C6.  With a negative owned count, a probability outside [0, 1] or a     *)
(* missing utilisation file anywhere in the inputs, a quickstart run (of a  *)
(* valid configuration) draws no binomial sample, returns no table and     *)
(* writes no file.                                                         *)
(***************************************************************************)
C6_DataRejectedBeforeSampling ==
    (entry = "quickstart" /\ DataInvalid /\ ~ConfigInvalid) =>
      samples = 0 /\ result = <<>> /\ files = {}

(***************************************************************************)
(* C7.  Under a valid configuration of at least two trials, in every       *)
(* summarised (hour, month) cell whose mean is 0, the                      *)
(* standard deviation and the percentile are 0 and the variability is a    *)
(* designated 'undefined' value: not NaN, not 0, not infinity.             *)
(***************************************************************************)
C7_ZeroMeanCellsReportSentinel ==
    (~ConfigInvalid /\ trials >= 2) =>
    \A c \in DOMAIN means :
      \A h \in 1 .. NumHours :
        means[c].values[h].num = 0 =>
          /\ std_devs[c].values[h].sq_num = 0
          /\ std_devs[c].values[h].sq_den # 0
          /\ percentiles[c].values[h].num = 0
          /\ IsUndefinedSentinel(percentage_variability[c].values[h])

(***************************************************************************)
(* C8.  At an hour of the month at which every device is used with         *)
(* probability exactly 0 or exactly 1, every trial's system load is the    *)
(* sum, over the devices used with probability 1, of effective owned count *)
(* times power (in thousandths of a kW).                                   *)
(***************************************************************************)
C8_CertainHoursHaveCertainLoad ==
    \A t \in DOMAIN output :
      \A h \in DOMAIN output[t] :
        (\A i \in DOMAIN load_inputs :
           UtilisationTimes(load_inputs[i].times, h - 1, month) \in {0, 100})
        => output[t][h] =
             SumOver({ i \in DOMAIN load_inputs :
                         UtilisationTimes(load_inputs[i].times, h - 1, month) = 100 },
                     [i \in DOMAIN load_inputs |->
                        EffectiveCount(load_inputs[i]) * load_inputs[i].Power])

\* Two trials of a month in which a device is used with certainty at hour 1.
C8_Witness ==
    /\ Len(output) = 2
    /\ \A i \in DOMAIN load_inputs :
         UtilisationTimes(load_inputs[i].times, 1, month) \in {0, 100}
    /\ \E i \in DOMAIN load_inputs :
         /\ UtilisationTimes(load_inputs[i].times, 1, month) = 100
         /\ UtilisationTimes(load_inputs[i].times, 0, month) = 50
    /\ output[1][2] > 0
    /\ output[1][1] # output[2][1]

(***************************************************************************)
(* C9 as claimed.  The standard deviation reported for an hour is the      *)
(* population one: its square is the sum of squared deviations over        *)
(* `trials` (0 when trials = 1).                                           *)
(***************************************************************************)
C9_StdIsPopulation ==
    [][ (pc = "make_results" /\ Len(std_devs') = Len(std_devs) + 1) =>
          \A h \in Hours :
            LET cell == std_devs'[Len(std_devs')].values[h + 1]
                n == Len(output)
            IN  /\ cell.sq_den # 0
                /\ cell.sq_num * n * n = cell.sq_den * ScaledVariance(Row(output, h))
      ]_vars

(***************************************************************************)
(* C9 as amended.  The standard deviation reported for an hour is the      *)
(* sample one: its square is the sum of squared deviations over            *)
(* `trials` - 1, and it is NaN when trials = 1.                            *)
(***************************************************************************)
C9_StdIsSample ==
    [][ (pc = "make_results" /\ Len(std_devs') = Len(std_devs) + 1) =>
          \A h \in Hours :
            LET cell == std_devs'[Len(std_devs')].values[h + 1]
                n == Len(output)
            IN  IF n = 1 THEN cell = NaN
                ELSE /\ cell.sq_den # 0
                     /\ cell.sq_num * n * (n - 1)
                          = cell.sq_den * ScaledVariance(Row(output, h))
      ]_vars

\* A summarised month with an hour whose trials differ.
C9_Witness ==
    /\ trials = 2
    /\ std_devs # <<>>
    /\ std_devs[1].values[1].sq_num > 0
    /\ std_devs[1].values[1].sq_den > 0

(***************************************************************************)
(* C10.  A quickstart run on valid inputs (trials >= 1, percentile in      *)
(* (0, 100), no invalid row) never fails; once done it has made `trials`   *)
(* aggregator calls for each month in month order, returned four tables of *)
(* 24 rows and 12 columns titled Jan..Dec, and written its files; a failed *)
(* run has returned no table and written no file.                          *)
(***************************************************************************)
C10_ValidRunCompletes ==
    entry = "quickstart" =>
      /\ (~ConfigInvalid /\ ~DataInvalid) => pc # "error"
      /\ pc = "done" =>
           /\ Len(calls) = NumMonths * trials
           /\ \A k \in DOMAIN calls : calls[k] = (k - 1) \div trials
           /\ Len(result) = 4
           /\ \A k \in 1 .. 4 : TableShapeOK(result[k])
           /\ files # {}
      /\ pc = "error" => result = <<>> /\ files = {}

\* What remains of C10 on a device list that is not empty.
C10_NonEmptyListRunCompletes == load_inputs # <<>> => C10_ValidRunCompletes

====
